---- MODULE Spec2Model ----
(***************************************************************************)
(* A model of gometer's meter package:                                     *)
(*   - Distribution (meter_distribution.go): a reservoir behind an         *)
(*     atomically swapped pointer, written by concurrent Record callers    *)
(*     and detached by ReadMeter;                                          *)
(*   - CarbonHandler (the carbon reporter): a control loop that owns the   *)
(*     connection registry, fed by HandleMeters callers and by dialers.    *)
(* Float64 values are modelled by integers; the float32 arithmetic of the  *)
(* percentile index is modelled bit-exactly (24-bit significand, round to  *)
(* nearest even).                                                          *)
(***************************************************************************)
EXTENDS Integers, Sequences, FiniteSets, Bags, TLC

(***************************************************************************)
(* Bounds of the model.                                                    *)
(***************************************************************************)
\* Distribution.Size: the capacity of every reservoir of the model.
Size == 2
\* Number of concurrent Record callers.
NumWriters == 2
\* Total number of Record calls started in a behaviour.
MaxRecords == 3
\* Total number of ReadMeter calls started in a behaviour.
MaxReads == 2
\* Largest reservoir size of the percentile specification.
MaxN == 110
\* Number of concurrent HandleMeters callers.
NumCallers == 2
\* The dial loop's attempts counter stops counting here (the delay it selects
\* has no effect on the other tasks).
MaxAttempts == 1
\* How many times the network breaks an established connection.
MaxBreaks == 1
\* The dial attempts of the backoff specification.
MaxSleepAttempts == 40

\* The values Record is called with (float64 in the code).
Values == {-1, 2}

Writers == 1..NumWriters

\* The nil pointer.
Nil == 0

(***************************************************************************)
(* Program constants.                                                      *)
(***************************************************************************)
DefaultDistributionSize == 1000

\* CarbonDialTimeout and CarbonMaxConnDelay, in seconds.
CarbonDialTimeout == 1
CarbonMaxConnDelay == 60

\* CarbonHandler.URLs, as configured with one URL per collector.
URLs == <<"a", "b">>

URLSet == {URLs[i] : i \in 1..Len(URLs)}

Callers == 1..NumCallers

\* math.MaxFloat64 stands above every value of the model.
MaxFloat64 == 1000000

VARIABLES
    \* ---- Distribution ----
    SamplingSeed,   \* Distribution.SamplingSeed
    state,          \* Distribution.state: Nil or a reservoir
    heap,           \* the reachable reservoirs: address -> distribution struct
    mutex,          \* distribution.mutex per reservoir: 0 (free) or the holder
    wpc,            \* per Record caller: position in Distribution.Record
    wst,            \* per Record caller: local `state`
    wval,           \* per Record caller: argument `value`
    rpc,            \* ReadMeter caller: position
    rnew,           \* ReadMeter: local newState
    rold,           \* ReadMeter: local oldState
    ritems,         \* Read: local items
    ri,             \* Read: loop index of the copy
    rn,             \* Read: local n
    rcount,         \* Read: the value read for "count"
    rmin,           \* Read: the value read for "p00"
    result,         \* the mapping ReadMeter returns
    \* ---- history (not program state) ----
    offered,        \* per reservoir: the values offered, in arrival order
    started,        \* Record calls started
    calls,          \* Record calls started since the last ReadMeter returned
    quiet,          \* no Record call has overlapped the running ReadMeter call
    prevQuiet,      \* no Record call overlapped the previous ReadMeter call
    reported,       \* the sum of the counts of the mappings ReadMeter returned
    casWins,        \* how many CompareAndSwapPointer calls of Record succeeded
    raced,          \* a Record held the detached reservoir's pointer at the swap
    reads,          \* ReadMeter calls started
    \* ---- distribution.Read on its own ----
    pd,             \* a reservoir no Record is inside of
    ppc,            \* "start", then "read" once Read has run on pd
    pmap,           \* the mapping Read returned for pd
    \* ---- CarbonHandler ----
    urls,           \* CarbonHandler.URLs
    kind,           \* per URL, the collector behind it: "healthy", "unreachable" or "flaky"
    once,           \* CarbonHandler.initialize: "new", "running" or "done"
    ipc,            \* position of the caller running init
    conns,          \* CarbonHandler.conns: URL -> connection or Nil
    connC,          \* CarbonHandler.connC: Nil or the channel
    valuesC,        \* CarbonHandler.valuesC: Nil or the channel
    hpc,            \* per HandleMeters caller: position
    lpc,            \* the run loop: "off", "select" or "send"
    lvalues,        \* send: the snapshot (named by its caller)
    ltodo,          \* send: the URLs the range loop has yet to visit
    dialers,        \* the running dial tasks: id -> [url, pc, attempts, delay, conn]
    open,           \* the connections established and not closed
    broken,         \* the open connections whose peer is gone: a write fails
    breaks,         \* connections broken so far
    \* ---- history (not program state) ----
    lwritten,       \* send: the URLs the snapshot was written to
    llive,          \* send: the URLs that had a connection when the snapshot arrived
    ltried,         \* send: per URL, how many writes of the snapshot were attempted
    lastWrite,      \* per URL: "none", or "ok" / "fail", the outcome of the last write
    inits,          \* how many times the body of init was entered
    loops,          \* how many run tasks were started
    initDials,      \* per URL: how many dial tasks init started
    \* ---- the dial loop of one task whose dials all fail ----
    scap,           \* CarbonMaxConnDelay, in seconds
    sattempts,      \* attempts
    sdelay,         \* the time slept before the latest dial
    sprev           \* the time slept before the dial before it

distVars == <<SamplingSeed, state, heap, mutex, wpc, wst, wval, rpc, rnew, rold,
              ritems, ri, rn, rcount, rmin, result, offered, started, calls, quiet,
              prevQuiet, reported, casWins, raced, reads>>

pctVars == <<pd, ppc, pmap>>

carbonVars == <<urls, kind, once, ipc, conns, connC, valuesC, hpc, lpc, lvalues, ltodo,
                dialers, open, broken, breaks, lwritten, llive, ltried, lastWrite,
                inits, loops, initDials>>

sleepVars == <<scap, sattempts, sdelay, sprev>>

vars == <<distVars, pctVars, carbonVars, sleepVars>>

(***************************************************************************)
(* Helpers.                                                                *)
(***************************************************************************)
EmptyMap == [k \in {} |-> 0]

Pow2(k) == 2 ^ k

MinInt(a, b) == IF a < b THEN a ELSE b

RECURSIVE SeqMin(_)
SeqMin(s) == IF Len(s) = 1 THEN s[1] ELSE MinInt(s[1], SeqMin(Tail(s)))

RECURSIVE SeqMax(_)
SeqMax(s) == IF Len(s) = 1 THEN s[1]
             ELSE IF s[1] > SeqMax(Tail(s)) THEN s[1] ELSE SeqMax(Tail(s))

RECURSIVE SeqBag(_)
SeqBag(s) == IF s = <<>> THEN EmptyBag ELSE SetToBag({Head(s)}) (+) SeqBag(Tail(s))

(***************************************************************************)
(* float32 arithmetic of the percentile index.  A float32 is <<m, e>>,     *)
(* the number m * 2^(-e) with 2^23 <= m < 2^24.                            *)
(***************************************************************************)
\* a / b rounded to the nearest integer, ties to even.
RoundHalfEven(a, b) ==
    LET f == a \div b
        r == a % b
    IN  IF 2 * r < b THEN f
        ELSE IF 2 * r > b THEN f + 1
        ELSE IF f % 2 = 0 THEN f ELSE f + 1

\* The least k with a * 2^k >= b * 2^23.
RECURSIVE ScaleUp(_, _, _)
ScaleUp(a, b, k) == IF a * Pow2(k) >= b * Pow2(23) THEN k ELSE ScaleUp(a, b, k + 1)

\* The least s with a < 2^(24+s).
RECURSIVE ScaleDown(_, _)
ScaleDown(a, s) == IF a \div Pow2(s) < Pow2(24) THEN s ELSE ScaleDown(a, s + 1)

\* float32(n) / 100
F32Div100(n) ==
    LET k == ScaleUp(n, 100, 0)
        m == RoundHalfEven(n * Pow2(k), 100)
    IN  IF m = Pow2(24) THEN <<Pow2(23), k - 1>> ELSE <<m, k>>

\* x * float32(p)
F32Mul(x, p) ==
    LET prod == x[1] * p
        s    == ScaleDown(prod, 0)
        m    == RoundHalfEven(prod, Pow2(s))
    IN  IF m = Pow2(24) THEN <<Pow2(23), x[2] - s - 1>> ELSE <<m, x[2] - s>>

\* int(x): truncation
F32ToInt(x) == IF x[2] >= 0 THEN x[1] \div Pow2(x[2]) ELSE x[1] * Pow2(-x[2])

(***************************************************************************)
(* sort.Sort(float64Array(items[:n])): ascending by Less, the rest of the  *)
(* slice untouched.                                                        *)
(***************************************************************************)
\* s in ascending order: the element with k-1 elements before it (by Less, equal
\* ones in their order of appearance) comes k-th.
SortAsc(s) ==
    LET n    == Len(s)
        rank == [i \in 1..n |->
                    Cardinality({j \in 1..n : s[j] < s[i] \/ (s[j] = s[i] /\ j < i)}) + 1]
    IN  [k \in 1..n |-> s[CHOOSE i \in 1..n : rank[i] = k]]

SortPrefix(items, n) == SortAsc(SubSeq(items, 1, n)) \o SubSeq(items, n + 1, Len(items))

(***************************************************************************)
(* Distribution.                                                           *)
(***************************************************************************)
getSize == IF Size = 0 THEN DefaultDistributionSize ELSE Size

newDistribution(size) ==
    [items |-> [i \in 1..size |-> 0], count |-> 0, min |-> MaxFloat64, max |-> 0]

\* percentileIndex computed exactly (as in float64): floor(n * p / 100).
percentileIndex_Exact(n, p) == (n * p) \div 100

\* index := float32(n) / 100 * float32(p); int(index)
percentileIndex(n, p) == F32ToInt(F32Mul(F32Div100(n), p))

\* percentile(p) of Read, over the sorted copy (0-based index into a 1-based sequence).
percentile(items, n, p) == items[percentileIndex(n, p) + 1]

\* The mapping Read builds from what it has read.
readMap(items, n, count, min, max) ==
    [k \in {"count", "p00", "p50", "p90", "p99", "pmx"} |->
        CASE k = "count" -> count
          [] k = "p00"   -> min
          [] k = "p50"   -> percentile(items, n, 50)
          [] k = "p90"   -> percentile(items, n, 90)
          [] k = "p99"   -> percentile(items, n, 99)
          [] k = "pmx"   -> max]

\* distribution.Read on a reservoir no Record is inside of.
Read(d) ==
    IF d.count = 0 THEN EmptyMap
    ELSE LET n == IF d.count > Len(d.items) THEN Len(d.items) ELSE d.count
         IN  readMap(SortPrefix(d.items, n), n, d.count, d.min, d.max)

InFlight(w) == wpc[w] # "idle"
InRecord(w) == wpc[w] \in {"lock", "store", "min", "max"}

DistInit ==
    /\ SamplingSeed = 0
    /\ state = Nil
    /\ heap = EmptyMap
    /\ mutex = EmptyMap
    /\ wpc = [w \in Writers |-> "idle"]
    /\ wst = [w \in Writers |-> Nil]
    /\ wval = [w \in Writers |-> 0]
    /\ rpc = "idle"
    /\ rnew = Nil
    /\ rold = Nil
    /\ ritems = <<>>
    /\ ri = 0
    /\ rn = 0
    /\ rcount = 0
    /\ rmin = 0
    /\ result = EmptyMap
    /\ offered = EmptyMap
    /\ started = 0
    /\ calls = 0
    /\ quiet = TRUE
    /\ prevQuiet = TRUE
    /\ reported = 0
    /\ casWins = 0
    /\ raced = FALSE
    /\ reads = 0

readerVars == <<rpc, rnew, rold, ritems, ri, rn, rcount, rmin, result, raced, reads>>
windowVars == <<calls, quiet, prevQuiet, reported, casWins>>
writerVars == <<wpc, wst, wval, started>>

\* f with x mapped to v.
Extend(f, x, v) == [y \in DOMAIN f \cup {x} |-> IF y = x THEN v ELSE f[y]]

\* f on the part S of its domain.
Restrict(f, S) == [y \in DOMAIN f \cap S |-> f[y]]

\* The reservoirs some pointer still refers to; the others are garbage.
Reachable(st, ws, rnw, rol) == ({st, rnw, rol} \cup {ws[w] : w \in Writers}) \ {Nil}

\* Garbage collection: an unreachable reservoir leaves the heap.
Collect(h, m, o, st, ws, rnw, rol) ==
    LET live == Reachable(st, ws, rnw, rol)
    IN  /\ heap' = Restrict(h, live)
        /\ mutex' = Restrict(m, live)
        /\ offered' = Restrict(o, live)

\* The address of a new reservoir.  Record caller w allocates at w (it builds
\* one only while it sees no reservoir, so its previous one is gone), ReadMeter
\* at the first free address above those.
WriterAddr(w) == w

ReaderAddr == CHOOSE a \in (NumWriters + 1)..(NumWriters + Cardinality(DOMAIN heap) + 1) :
                 /\ a \notin DOMAIN heap
                 /\ \A b \in (NumWriters + 1)..(a - 1) : b \in DOMAIN heap

\* newDistribution(dist.getSize(), dist.getSeed()): getSeed is atomic.AddInt64(&SamplingSeed, 1);
\* the seed feeds the reservoir's rand, whose draws the model leaves open.
Alloc(a) ==
    /\ SamplingSeed' = SamplingSeed + 1
    /\ heap' = Extend(heap, a, newDistribution(getSize))
    /\ mutex' = Extend(mutex, a, 0)
    /\ offered' = Extend(offered, a, <<>>)

\* Distribution.Record: state := atomic.LoadPointer(&dist.state)
\* (the argument `value` is drawn where Record first uses it, under the mutex)
RecordLoad(w) ==
    /\ wpc[w] = "idle"
    /\ started < MaxRecords
    /\ started' = started + 1
    /\ wst' = [wst EXCEPT ![w] = state]
    /\ wpc' = [wpc EXCEPT ![w] = IF state = Nil THEN "new" ELSE "lock"]
    /\ calls' = calls + 1
    /\ quiet' = (quiet /\ rpc = "idle")
    /\ prevQuiet' = prevQuiet
    /\ reported' = reported
    /\ casWins' = casWins
    /\ UNCHANGED <<SamplingSeed, state, heap, mutex, offered, wval>>
    /\ UNCHANGED readerVars

\* state = unsafe.Pointer(newDistribution(dist.getSize(), dist.getSeed()))
RecordNew(w) ==
    /\ wpc[w] = "new"
    /\ Alloc(WriterAddr(w))
    /\ wst' = [wst EXCEPT ![w] = WriterAddr(w)]
    /\ wpc' = [wpc EXCEPT ![w] = "cas"]
    /\ UNCHANGED <<state, wval, started, windowVars>>
    /\ UNCHANGED readerVars

\* RecordCAS without the reload: the loser of the race keeps the reservoir it built.
RecordCAS_KeepOwn(w) ==
    /\ wpc[w] = "cas"
    /\ state' = IF state = Nil THEN wst[w] ELSE state
    /\ casWins' = IF state = Nil THEN casWins + 1 ELSE casWins
    /\ wpc' = [wpc EXCEPT ![w] = "lock"]
    /\ UNCHANGED <<SamplingSeed, heap, mutex, wst, wval, offered, started>>
    /\ UNCHANGED <<calls, quiet, prevQuiet, reported>>
    /\ UNCHANGED readerVars

\* A plain store in the place of the compare-and-swap.
RecordCAS_Store(w) ==
    /\ wpc[w] = "cas"
    /\ state' = wst[w]
    /\ casWins' = casWins + 1
    /\ wpc' = [wpc EXCEPT ![w] = "lock"]
    /\ UNCHANGED <<SamplingSeed, heap, mutex, wst, wval, offered, started>>
    /\ UNCHANGED <<calls, quiet, prevQuiet, reported>>
    /\ UNCHANGED readerVars

\* if !atomic.CompareAndSwapPointer(&dist.state, nil, state) {
RecordCAS(w) ==
    /\ wpc[w] = "cas"
    /\ IF state = Nil
       THEN /\ state' = wst[w]
            /\ casWins' = casWins + 1
            /\ wpc' = [wpc EXCEPT ![w] = "lock"]
       ELSE /\ state' = state
            /\ casWins' = casWins
            /\ wpc' = [wpc EXCEPT ![w] = "reload"]
    /\ UNCHANGED <<SamplingSeed, heap, mutex, wst, wval, offered, started>>
    /\ UNCHANGED <<calls, quiet, prevQuiet, reported>>
    /\ UNCHANGED readerVars

\* A loser of the race that does not load the winner's reservoir.
RecordReload_KeepOwn(w) ==
    /\ wpc[w] = "reload"
    /\ wst' = wst
    /\ wpc' = [wpc EXCEPT ![w] = "lock"]
    /\ Collect(heap, mutex, offered, state, wst', rnew, rold)
    /\ UNCHANGED <<SamplingSeed, state, wval, started, windowVars>>
    /\ UNCHANGED readerVars

\* state = atomic.LoadPointer(&dist.state) }
RecordReload(w) ==
    /\ wpc[w] = "reload"
    /\ wst' = [wst EXCEPT ![w] = state]
    /\ wpc' = [wpc EXCEPT ![w] = "lock"]
    /\ Collect(heap, mutex, offered, state, wst', rnew, rold)
    /\ UNCHANGED <<SamplingSeed, state, wval, started, windowVars>>
    /\ UNCHANGED readerVars

\* A Record that counts its value twice.
incCount_Twice(d) == [d EXCEPT !.count = @ + 2]

\* dist.count++
incCount(d) == [d EXCEPT !.count = @ + 1]

\* StoreItem with `<` for `<=`: the last free slot is sampled instead of filled.
StoreItem_Less(d, value, i) ==
    IF d.count < Len(d.items)
    THEN [d EXCEPT !.items[d.count] = value]
    ELSE IF i < Len(d.items)
         THEN [d EXCEPT !.items[i + 1] = value]
         ELSE d

\* StoreItem that appends once the buffer is full: the buffer grows with the stream.
StoreItem_Append(d, value, i) ==
    IF d.count <= Len(d.items)
    THEN [d EXCEPT !.items[d.count] = value]
    ELSE [d EXCEPT !.items = Append(@, value)]

\* if dist.count <= len(dist.items) { dist.items[dist.count-1] = value }
\* else if i := dist.rand.Int63n(int64(dist.count)); int(i) < len(dist.items) { dist.items[i] = value }
\* with i the value Int63n returns (0-based; the sequence is 1-based).
StoreItem(d, value, i) ==
    IF d.count <= Len(d.items)
    THEN [d EXCEPT !.items[d.count] = value]
    ELSE IF i < Len(d.items)
         THEN [d EXCEPT !.items[i + 1] = value]
         ELSE d

\* if value < dist.min { dist.min = value }
setMin(d, value) == IF value < d.min THEN [d EXCEPT !.min = value] ELSE d

\* if value > dist.max { dist.max = value }
setMax(d, value) == IF value > d.max THEN [d EXCEPT !.max = value] ELSE d

\* distribution.Record, from Lock to Unlock, on a reservoir ReadMeter is not reading.
\* Nothing but the holder of the mutex looks at such a reservoir, and the steps
\* of the critical section commute with every step of the other callers, the
\* swap of ReadMeter included, so the section is taken as one step.  (A section
\* on the reservoir that a later swap detaches is the same as one that starts
\* right after the swap, which RecordLock covers step by step.)
RecordWhole(w) ==
    /\ wpc[w] = "lock"
    /\ wst[w] # Nil
    /\ wst[w] # rold
    /\ mutex[wst[w]] = 0
    /\ wpc' = [wpc EXCEPT ![w] = "idle"]
    /\ wst' = [wst EXCEPT ![w] = Nil]
    /\ wval' = wval
    /\ \E value \in Values, i \in 0..heap[wst[w]].count :
          Collect([heap EXCEPT ![wst[w]] =
                       setMax(setMin(StoreItem(incCount(@), value, i), value), value)],
                  mutex,
                  [offered EXCEPT ![wst[w]] = Append(@, value)],
                  state, wst', rnew, rold)
    /\ UNCHANGED <<SamplingSeed, state, started, windowVars>>
    /\ UNCHANGED readerVars

\* distribution.Record on the reservoir ReadMeter is reading, step by step:
\* dist.mutex.Lock(); dist.count++
RecordCount(w) ==
    /\ wpc[w] = "lock"
    /\ wst[w] # Nil
    /\ wst[w] = rold
    /\ mutex[wst[w]] = 0
    /\ mutex' = [mutex EXCEPT ![wst[w]] = w]
    /\ \E value \in Values :
          /\ wval' = [wval EXCEPT ![w] = value]
          /\ offered' = [offered EXCEPT ![wst[w]] = Append(@, value)]
    /\ heap' = [heap EXCEPT ![wst[w]] = incCount(@)]
    /\ wpc' = [wpc EXCEPT ![w] = "store"]
    /\ UNCHANGED <<SamplingSeed, state, wst, started, windowVars>>
    /\ UNCHANGED readerVars

\* if dist.count <= len(dist.items) {...} else if i := Int63n(count); i < len {...}
RecordStore(w) ==
    /\ wpc[w] = "store"
    /\ \E i \in 0..(heap[wst[w]].count - 1) :
          heap' = [heap EXCEPT ![wst[w]] = StoreItem(@, wval[w], i)]
    /\ wpc' = [wpc EXCEPT ![w] = "min"]
    /\ UNCHANGED <<SamplingSeed, state, mutex, wst, wval, offered, started, windowVars>>
    /\ UNCHANGED readerVars

\* if value < dist.min { dist.min = value }
RecordMin(w) ==
    /\ wpc[w] = "min"
    /\ heap' = [heap EXCEPT ![wst[w]] = setMin(@, wval[w])]
    /\ wpc' = [wpc EXCEPT ![w] = "max"]
    /\ UNCHANGED <<SamplingSeed, state, mutex, wst, wval, offered, started, windowVars>>
    /\ UNCHANGED readerVars

\* if value > dist.max { dist.max = value }; dist.mutex.Unlock(); Record returns
RecordMax(w) ==
    /\ wpc[w] = "max"
    /\ wpc' = [wpc EXCEPT ![w] = "idle"]
    /\ wst' = [wst EXCEPT ![w] = Nil]
    /\ wval' = [wval EXCEPT ![w] = 0]
    /\ Collect([heap EXCEPT ![wst[w]] = setMax(@, wval[w])],
               [mutex EXCEPT ![wst[w]] = 0], offered, state, wst', rnew, rold)
    /\ UNCHANGED <<SamplingSeed, state, started, windowVars>>
    /\ UNCHANGED readerVars

\* ReadMeter: newState := newDistribution(dist.getSize(), dist.getSeed())
ReadMeterNew ==
    /\ rpc = "idle"
    /\ reads < MaxReads
    /\ Alloc(ReaderAddr)
    /\ rnew' = ReaderAddr
    /\ rpc' = "swap"
    /\ reads' = reads + 1
    /\ quiet' = (\A w \in Writers : ~InFlight(w))
    /\ UNCHANGED <<state, rold, ritems, ri, rn, rcount, rmin, result, raced, calls, prevQuiet, reported, casWins>>
    /\ UNCHANGED writerVars

\* ReadMeterSwap with a load for the swap: the reservoir that was read stays current.
ReadMeterSwap_Load ==
    /\ rpc = "swap"
    /\ rold' = state
    /\ state' = state
    /\ rnew' = Nil
    /\ raced' = FALSE
    /\ result' = IF state = Nil THEN EmptyMap ELSE Read(heap[state])
    /\ rpc' = "done"
    /\ Collect(heap, mutex, offered, state, wst, Nil, state)
    /\ UNCHANGED <<SamplingSeed, ritems, ri, rn, rcount, rmin, windowVars, reads>>
    /\ UNCHANGED writerVars

\* oldState := atomic.SwapPointer(&dist.state, newState)
\* if oldState == nil { return make(map[string]float64) }
\* return (*distribution)(oldState).Read()
\* When no Record caller holds the detached reservoir, nothing can change it
\* any more and Read is taken as one step; otherwise Read goes step by step
\* (ReadCheck .. ReadMax), interleaved with the Record calls that race it.
ReadMeterSwap ==
    /\ rpc = "swap"
    /\ rold' = state
    /\ state' = rnew
    /\ rnew' = Nil
    /\ raced' = (\E w \in Writers : InRecord(w) /\ wst[w] = state)
    /\ IF state = Nil
       THEN /\ result' = EmptyMap
            /\ rpc' = "done"
       ELSE IF ~raced'
       THEN /\ result' = Read(heap[state])
            /\ rpc' = "done"
       ELSE /\ result' = result
            /\ rpc' = "check"
    /\ UNCHANGED <<SamplingSeed, heap, mutex, ritems, ri, rn, rcount, rmin,
                   offered, windowVars, reads>>
    /\ UNCHANGED writerVars

\* Read: if dist.count == 0 { return {} }; items := make([]float64, len(dist.items))
ReadCheck ==
    /\ rpc = "check"
    /\ IF heap[rold].count = 0
       THEN /\ result' = EmptyMap
            /\ rpc' = "done"
            /\ UNCHANGED <<ritems, ri>>
       ELSE /\ result' = result
            /\ rpc' = "copy"
            /\ ritems' = [i \in 1..Len(heap[rold].items) |-> 0]
            /\ ri' = 0
    /\ UNCHANGED <<SamplingSeed, state, heap, mutex, rnew, rold, rn, rcount, rmin,
                   offered, windowVars, raced, reads>>
    /\ UNCHANGED writerVars

\* for i := 0; i < len(dist.items); i++ { items[i] = dist.items[i] }
ReadCopy ==
    /\ rpc = "copy"
    /\ ritems' = [ritems EXCEPT ![ri + 1] = heap[rold].items[ri + 1]]
    /\ ri' = IF ri + 1 < Len(heap[rold].items) THEN ri + 1 ELSE 0
    /\ rpc' = IF ri + 1 < Len(heap[rold].items) THEN "copy" ELSE "n"
    /\ UNCHANGED <<SamplingSeed, state, heap, mutex, rnew, rold, rn, rcount, rmin,
                   result, offered, windowVars, raced, reads>>
    /\ UNCHANGED writerVars

\* n := dist.count; if dist.count > len(items) { n = len(items) }; sort.Sort(items[:n])
ReadN ==
    /\ rpc = "n"
    /\ LET n == IF heap[rold].count > Len(ritems) THEN Len(ritems) ELSE heap[rold].count
       IN  /\ rn' = n
           /\ ritems' = SortPrefix(ritems, n)
    /\ rpc' = "count"
    /\ UNCHANGED <<SamplingSeed, state, heap, mutex, rnew, rold, ri, rcount, rmin,
                   result, offered, windowVars, raced, reads>>
    /\ UNCHANGED writerVars

\* "count": float64(dist.count)
ReadCount ==
    /\ rpc = "count"
    /\ rcount' = heap[rold].count
    /\ rpc' = "min"
    /\ UNCHANGED <<SamplingSeed, state, heap, mutex, rnew, rold, ritems, ri, rn, rmin,
                   result, offered, windowVars, raced, reads>>
    /\ UNCHANGED writerVars

\* "p00": dist.min
ReadMin ==
    /\ rpc = "min"
    /\ rmin' = heap[rold].min
    /\ rpc' = "max"
    /\ UNCHANGED <<SamplingSeed, state, heap, mutex, rnew, rold, ritems, ri, rn, rcount,
                   result, offered, windowVars, raced, reads>>
    /\ UNCHANGED writerVars

\* "p50", "p90", "p99", "pmx": dist.max; Read returns the mapping
ReadMax ==
    /\ rpc = "max"
    /\ result' = readMap(ritems, rn, rcount, rmin, heap[rold].max)
    /\ rpc' = "done"
    /\ UNCHANGED <<SamplingSeed, state, heap, mutex, rnew, rold, ritems, ri, rn, rcount,
                   rmin, offered, windowVars, raced, reads>>
    /\ UNCHANGED writerVars

\* ReadMeter has returned `result` to its caller; its locals are gone.
\* The "count" entry of a mapping ReadMeter returns; the empty mapping has none.
countOf(m) == IF "count" \in DOMAIN m THEN m.count ELSE 0

ReadMeterReturn ==
    /\ rpc = "done"
    /\ rpc' = "idle"
    /\ rold' = Nil
    /\ ritems' = <<>>
    /\ ri' = 0
    /\ rn' = 0
    /\ rcount' = 0
    /\ rmin' = 0
    /\ result' = EmptyMap
    /\ raced' = FALSE
    /\ calls' = 0
    /\ prevQuiet' = quiet
    /\ reported' = reported + countOf(result)
    /\ casWins' = casWins
    /\ quiet' = TRUE
    /\ Collect(heap, mutex, offered, state, wst, rnew, Nil)
    /\ UNCHANGED <<SamplingSeed, state, rnew, reads>>
    /\ UNCHANGED writerVars

DistNext ==
    \/ \E w \in Writers : RecordLoad(w)
    \/ \E w \in Writers : RecordNew(w)
    \/ \E w \in Writers : RecordCAS(w)
    \/ \E w \in Writers : RecordReload(w)
    \/ \E w \in Writers : RecordWhole(w)
    \/ \E w \in Writers : RecordCount(w)
    \/ \E w \in Writers : RecordStore(w)
    \/ \E w \in Writers : RecordMin(w)
    \/ \E w \in Writers : RecordMax(w)
    \/ ReadMeterNew
    \/ ReadMeterSwap
    \/ ReadCheck
    \/ ReadCopy
    \/ ReadN
    \/ ReadCount
    \/ ReadMin
    \/ ReadMax
    \/ ReadMeterReturn

(***************************************************************************)
(* distribution.Read as a function of the reservoir: a reservoir of any    *)
(* size up to MaxN, filled with n .. 1 in arrival order (so that the       *)
(* sorted sample is 1 .. n), offered as many values as it has slots, one   *)
(* fewer or one more.                                                      *)
(***************************************************************************)
Retained(d) == IF d.count > Len(d.items) THEN Len(d.items) ELSE d.count

Filled(size, count) ==
    LET n == IF count > size THEN size ELSE count
    IN  [items |-> [i \in 1..size |-> IF i <= n THEN n + 1 - i ELSE 0],
         count |-> count, min |-> 1, max |-> n]

PctIdle == pd = newDistribution(1) /\ ppc = "idle" /\ pmap = EmptyMap

PctInit ==
    /\ \E size \in 1..MaxN : \E count \in {size - 1, size, size + 1} \ {0} :
          pd = Filled(size, count)
    /\ ppc = "start"
    /\ pmap = EmptyMap

\* distribution.Read
PctRead ==
    /\ ppc = "start"
    /\ pmap' = Read(pd)
    /\ ppc' = "read"
    /\ pd' = pd

(***************************************************************************)
(* CarbonHandler.                                                          *)
(***************************************************************************)
\* The channel a make(chan ...) returns.
Chan == 1

\* A backoff that doubles: 1s, 2s, 4s, ... up to the ceiling.
sleep_Doubling(attempts, cap) ==
    IF attempts = 0 THEN 0
    ELSE IF Pow2(attempts - 1) < cap THEN Pow2(attempts - 1)
    ELSE cap

\* sleep(attempts), with CarbonMaxConnDelay = cap: the time slept, in seconds
\*   if attempts == 0 { return }
\*   sleepFor := time.Duration(attempts*2) * time.Second
\*   if sleepFor < CarbonMaxConnDelay { time.Sleep(sleepFor) } else { time.Sleep(CarbonMaxConnDelay) }
sleep(attempts, cap) ==
    IF attempts = 0 THEN 0
    ELSE IF attempts * 2 < cap THEN attempts * 2
    ELSE cap

\* The time slept under the default CarbonMaxConnDelay.
sleepFor(attempts) == sleep(attempts, CarbonMaxConnDelay)

\* The ceilings of the backoff specification, in seconds.
SleepCaps == {1, 10, CarbonMaxConnDelay}

SleepIdle ==
    /\ scap = CarbonMaxConnDelay
    /\ sattempts = 0
    /\ sdelay = 0
    /\ sprev = 0

SleepInit ==
    /\ scap \in SleepCaps
    /\ sattempts = 0
    /\ sdelay = 0
    /\ sprev = 0

\* dial: one round of  for attempts := 0; ; attempts++ { carbon.sleep(attempts); ... }
\* whose net.DialTimeout fails
DialRound ==
    /\ sattempts <= MaxSleepAttempts
    /\ sdelay' = sleep(sattempts, scap)
    /\ sprev' = sdelay
    /\ sattempts' = sattempts + 1
    /\ UNCHANGED scap

CarbonIdle ==
    /\ urls = URLs
    /\ kind = [u \in URLSet |-> "healthy"]
    /\ once = "new"
    /\ ipc = 0
    /\ conns = EmptyMap
    /\ connC = Nil
    /\ valuesC = Nil
    /\ hpc = [h \in Callers |-> "idle"]
    /\ lpc = "off"
    /\ lvalues = 0
    /\ ltodo = {}
    /\ dialers = EmptyMap
    /\ open = {}
    /\ broken = {}
    /\ breaks = 0
    /\ lwritten = {}
    /\ llive = {}
    /\ ltried = [u \in URLSet |-> 0]
    /\ lastWrite = [u \in URLSet |-> "none"]
    /\ inits = 0
    /\ loops = 0
    /\ initDials = [u \in URLSet |-> 0]

\* The collectors: the first URL is healthy or flaky, the others are unreachable or flaky.
CarbonInit ==
    /\ urls = URLs
    /\ kind \in [URLSet -> {"healthy", "unreachable", "flaky"}]
    /\ kind[URLs[1]] # "unreachable"
    /\ \A i \in 2..Len(URLs) : kind[URLs[i]] # "healthy"
    /\ once = "new"
    /\ ipc = 0
    /\ conns = EmptyMap
    /\ connC = Nil
    /\ valuesC = Nil
    /\ hpc = [h \in Callers |-> "idle"]
    /\ lpc = "off"
    /\ lvalues = 0
    /\ ltodo = {}
    /\ dialers = EmptyMap
    /\ open = {}
    /\ broken = {}
    /\ breaks = 0
    /\ lwritten = {}
    /\ llive = {}
    /\ ltried = [u \in URLSet |-> 0]
    /\ lastWrite = [u \in URLSet |-> "none"]
    /\ inits = 0
    /\ loops = 0
    /\ initDials = [u \in URLSet |-> 0]

\* The same URL configured twice, for a collector that is healthy or flaky.
CarbonInitDup ==
    /\ urls = <<URLs[1], URLs[1]>>
    /\ kind \in [URLSet -> {"healthy", "unreachable", "flaky"}]
    /\ kind[URLs[1]] # "unreachable"
    /\ \A i \in 2..Len(URLs) : kind[URLs[i]] = "unreachable"
    /\ once = "new"
    /\ ipc = 0
    /\ conns = EmptyMap
    /\ connC = Nil
    /\ valuesC = Nil
    /\ hpc = [h \in Callers |-> "idle"]
    /\ lpc = "off"
    /\ lvalues = 0
    /\ ltodo = {}
    /\ dialers = EmptyMap
    /\ open = {}
    /\ broken = {}
    /\ breaks = 0
    /\ lwritten = {}
    /\ llive = {}
    /\ ltried = [u \in URLSet |-> 0]
    /\ lastWrite = [u \in URLSet |-> "none"]
    /\ inits = 0
    /\ loops = 0
    /\ initDials = [u \in URLSet |-> 0]

envVars == <<urls, kind, open, broken, breaks>>
initVars == <<once, ipc, connC, valuesC, inits, loops, initDials>>
loopVars == <<lpc, lvalues, ltodo, lwritten, llive, ltried>>

\* The id of the next dial task / connection: the first one not in use.
FreshId(used) == CHOOSE i \in 1..(Cardinality(used) + 1) :
                    i \notin used /\ \A j \in 1..(i - 1) : j \in used

ConnsInUse == open \cup {conns[u] : u \in DOMAIN conns}
                   \cup {dialers[d].conn : d \in DOMAIN dialers}

\* carbon.conns[URL]: nil for a URL the map does not hold
Lookup(cs, URL) == IF URL \in DOMAIN cs THEN cs[URL] ELSE Nil

\* A connect that leaves the connection of the registry open.
connect_NoClose(URL, cs, ds, op, br) ==
    /\ open' = op
    /\ broken' = br
    /\ conns' = Extend(cs, URL, Nil)
    /\ dialers' = Extend(ds, FreshId(DOMAIN ds),
                         [url |-> URL, pc |-> "dial", attempts |-> 0, delay |-> 0, conn |-> Nil])

\* connect(URL): close the connection of the registry, if any; conns[URL] = nil; go dial(URL)
\* (cs, ds, op, br: the registry, the dial tasks and the connections it starts from)
connect(URL, cs, ds, op, br) ==
    /\ open' = op \ {Lookup(cs, URL)}
    /\ broken' = br \ {Lookup(cs, URL)}
    /\ conns' = Extend(cs, URL, Nil)
    /\ dialers' = Extend(ds, FreshId(DOMAIN ds),
                         [url |-> URL, pc |-> "dial", attempts |-> 0, delay |-> 0, conn |-> Nil])

\* A Do that lets every caller that does not find init done run it.
Do_Unguarded(h, body, wait, done) ==
    /\ hpc[h] = "idle"
    /\ IF once # "done"
       THEN /\ once' = "running"
            /\ ipc' = 0
            /\ hpc' = [hpc EXCEPT ![h] = body]
       ELSE /\ hpc' = [hpc EXCEPT ![h] = done]
            /\ UNCHANGED <<once, ipc>>
    /\ UNCHANGED <<connC, valuesC, inits, loops, initDials, conns, dialers, lastWrite>>
    /\ UNCHANGED <<envVars, loopVars>>

\* carbon.initialize.Do(carbon.init): the first caller runs init (position body), a
\* caller that finds init running waits for it (position wait), a caller that finds
\* it done goes on (position done)
Do(h, body, wait, done) ==
    /\ hpc[h] = "idle"
    /\ IF once = "new"
       THEN /\ once' = "running"
            /\ ipc' = 0
            /\ hpc' = [hpc EXCEPT ![h] = body]
       ELSE /\ hpc' = [hpc EXCEPT ![h] = IF once = "done" THEN done ELSE wait]
            /\ UNCHANGED <<once, ipc>>
    /\ UNCHANGED <<connC, valuesC, inits, loops, initDials, conns, dialers, lastWrite>>
    /\ UNCHANGED <<envVars, loopVars>>

\* HandleMeters: carbon.Init(), then carbon.valuesC <- values
HandleMeters(h) == Do(h, "init", "once", "send")

\* Init, called on its own: carbon.initialize.Do(carbon.init), then return
InitCall(h) == Do(h, "initOnly", "onceOnly", "idle")

\* The caller is inside the body of init.
InInit(h) == hpc[h] \in {"init", "initOnly"}

\* init: if len(carbon.URLs) == 0 { KFatal }; carbon.conns = make(map[string]net.Conn)
InitMake(h) ==
    /\ InInit(h)
    /\ ipc = 0
    /\ Len(urls) # 0
    /\ conns' = EmptyMap
    /\ ipc' = 1
    /\ inits' = inits + 1
    /\ UNCHANGED <<once, connC, valuesC, loops, initDials, hpc, dialers, lastWrite>>
    /\ UNCHANGED <<envVars, loopVars>>

\* init: for _, URL := range carbon.URLs { carbon.connect(URL) }
InitConnect(h) ==
    /\ InInit(h)
    /\ ipc \in 1..Len(urls)
    /\ connect(urls[ipc], conns, dialers, open, broken)
    /\ ipc' = ipc + 1
    /\ initDials' = [initDials EXCEPT ![urls[ipc]] = @ + 1]
    /\ UNCHANGED <<urls, kind, breaks, once, connC, valuesC, inits, loops, hpc, lastWrite>>
    /\ UNCHANGED loopVars

\* init: carbon.connC = make(chan msgConn); carbon.valuesC = make(chan map[string]float64)
InitChans(h) ==
    /\ InInit(h)
    /\ ipc = Len(urls) + 1
    /\ connC' = Chan
    /\ valuesC' = Chan
    /\ ipc' = ipc + 1
    /\ UNCHANGED <<once, inits, loops, initDials, conns, hpc, dialers, lastWrite>>
    /\ UNCHANGED <<envVars, loopVars>>

\* init: go carbon.run(); init returns and Do with it
InitGo(h) ==
    /\ InInit(h)
    /\ ipc = Len(urls) + 2
    /\ lpc' = "select"
    /\ loops' = loops + 1
    /\ once' = "done"
    /\ ipc' = 0
    /\ hpc' = [hpc EXCEPT ![h] = IF hpc[h] = "init" THEN "send" ELSE "idle"]
    /\ UNCHANGED <<connC, valuesC, inits, initDials, conns, dialers, lastWrite>>
    /\ UNCHANGED <<envVars, lvalues, ltodo, lwritten, llive, ltried>>

\* carbon.initialize.Do returns for a caller that found init running
OnceReturn(h) ==
    /\ hpc[h] \in {"once", "onceOnly"}
    /\ once = "done"
    /\ hpc' = [hpc EXCEPT ![h] = IF hpc[h] = "once" THEN "send" ELSE "idle"]
    /\ UNCHANGED <<conns, dialers, lastWrite>>
    /\ UNCHANGED <<envVars, initVars, loopVars>>

\* dial: carbon.sleep(attempts); net.DialTimeout succeeds; the task goes on to
\* carbon.connC <- msgConn{URL, conn}, where it blocks for ever if it finds connC still nil
DialOK(d) ==
    /\ d \in DOMAIN dialers
    /\ dialers[d].pc = "dial"
    /\ kind[dialers[d].url] # "unreachable"
    /\ LET c == FreshId(ConnsInUse)
       IN  /\ open' = open \cup {c}
           /\ dialers' = [dialers EXCEPT ![d].conn = c,
                                         ![d].delay = sleepFor(dialers[d].attempts),
                                         ![d].pc = IF connC = Nil THEN "stuck" ELSE "handoff"]
    /\ UNCHANGED <<urls, kind, broken, breaks, conns, hpc, lastWrite>>
    /\ UNCHANGED <<initVars, loopVars>>

\* dial: carbon.sleep(attempts); net.DialTimeout fails; attempts++
DialFail(d) ==
    /\ d \in DOMAIN dialers
    /\ dialers[d].pc = "dial"
    /\ kind[dialers[d].url] # "healthy"
    /\ dialers' = [dialers EXCEPT ![d].delay = sleepFor(dialers[d].attempts),
                                  ![d].attempts = IF @ < MaxAttempts THEN @ + 1 ELSE @]
    /\ UNCHANGED <<conns, hpc, lastWrite>>
    /\ UNCHANGED <<envVars, initVars, loopVars>>

\* run: case values := <-carbon.valuesC, with the caller's carbon.valuesC <- values
RunValues(h) ==
    /\ lpc = "select"
    /\ hpc[h] = "send"
    /\ valuesC # Nil
    /\ hpc' = [hpc EXCEPT ![h] = "idle"]
    /\ lpc' = "send"
    /\ lvalues' = h
    /\ ltodo' = DOMAIN conns
    /\ lwritten' = {}
    /\ llive' = {u \in DOMAIN conns : conns[u] # Nil}
    /\ ltried' = [u \in URLSet |-> 0]
    /\ UNCHANGED <<conns, dialers, lastWrite>>
    /\ UNCHANGED <<envVars, initVars>>

\* run: case msg := <-carbon.connC: carbon.conns[msg.URL] = msg.Conn, with the dial
\* task's carbon.connC <- msgConn{URL, conn}; return
RunConn(d) ==
    /\ lpc = "select"
    /\ d \in DOMAIN dialers
    /\ dialers[d].pc = "handoff"
    /\ conns' = Extend(conns, dialers[d].url, dialers[d].conn)
    /\ dialers' = Restrict(dialers, DOMAIN dialers \ {d})
    /\ UNCHANGED <<hpc, lastWrite>>
    /\ UNCHANGED <<envVars, initVars, loopVars>>

\* A send that logs a write error and leaves the connection where it is.
SendOne_NoConnect(URL) ==
    /\ lpc = "send"
    /\ URL \in ltodo
    /\ ltodo' = ltodo \ {URL}
    /\ IF conns[URL] = Nil
       THEN UNCHANGED <<lwritten, ltried, lastWrite>>
       ELSE IF conns[URL] \in broken
       THEN /\ lastWrite' = [lastWrite EXCEPT ![URL] = "fail"]
            /\ ltried' = [ltried EXCEPT ![URL] = @ + 1]
            /\ lwritten' = lwritten
       ELSE /\ lwritten' = lwritten \cup {URL}
            /\ ltried' = [ltried EXCEPT ![URL] = @ + 1]
            /\ lastWrite' = [lastWrite EXCEPT ![URL] = "ok"]
    /\ UNCHANGED <<conns, dialers, open, broken>>
    /\ UNCHANGED <<urls, kind, breaks, hpc, lpc, lvalues, llive>>
    /\ UNCHANGED initVars

\* A send that returns at the first write error.
SendOne_Abort(URL) ==
    /\ lpc = "send"
    /\ URL \in ltodo
    /\ ltodo' = IF conns[URL] # Nil /\ conns[URL] \in broken THEN {} ELSE ltodo \ {URL}
    /\ IF conns[URL] = Nil
       THEN UNCHANGED <<conns, dialers, open, broken, lwritten, ltried, lastWrite>>
       ELSE IF conns[URL] \in broken
       THEN /\ connect(URL, conns, dialers, open, broken)
            /\ lastWrite' = [lastWrite EXCEPT ![URL] = "fail"]
            /\ ltried' = [ltried EXCEPT ![URL] = @ + 1]
            /\ lwritten' = lwritten
       ELSE /\ lwritten' = lwritten \cup {URL}
            /\ ltried' = [ltried EXCEPT ![URL] = @ + 1]
            /\ lastWrite' = [lastWrite EXCEPT ![URL] = "ok"]
            /\ UNCHANGED <<conns, dialers, open, broken>>
    /\ UNCHANGED <<urls, kind, breaks, hpc, lpc, lvalues, llive>>
    /\ UNCHANGED initVars

\* send: one round of  for URL, conn := range carbon.conns
\*   if conn == nil { continue }
\*   if err := carbon.write(conn, values, ts); err != nil { carbon.connect(URL) }
SendOne(URL) ==
    /\ lpc = "send"
    /\ URL \in ltodo
    /\ ltodo' = ltodo \ {URL}
    /\ IF conns[URL] = Nil
       THEN UNCHANGED <<conns, dialers, open, broken, lwritten, ltried, lastWrite>>
       ELSE IF conns[URL] \in broken
       THEN /\ connect(URL, conns, dialers, open, broken)
            /\ lastWrite' = [lastWrite EXCEPT ![URL] = "fail"]
            /\ ltried' = [ltried EXCEPT ![URL] = @ + 1]
            /\ lwritten' = lwritten
       ELSE /\ lwritten' = lwritten \cup {URL}
            /\ ltried' = [ltried EXCEPT ![URL] = @ + 1]
            /\ lastWrite' = [lastWrite EXCEPT ![URL] = "ok"]
            /\ UNCHANGED <<conns, dialers, open, broken>>
    /\ UNCHANGED <<urls, kind, breaks, hpc, lpc, lvalues, llive>>
    /\ UNCHANGED initVars

\* A run that returns once send has returned.
SendDone_Return ==
    /\ lpc = "send"
    /\ ltodo = {}
    /\ lpc' = "off"
    /\ lvalues' = 0
    /\ lwritten' = {}
    /\ llive' = {}
    /\ ltried' = [u \in URLSet |-> 0]
    /\ UNCHANGED <<ltodo, conns, dialers, hpc, lastWrite>>
    /\ UNCHANGED <<envVars, initVars>>

\* send returns: the loop is back at its select
SendDone ==
    /\ lpc = "send"
    /\ ltodo = {}
    /\ lpc' = "select"
    /\ lvalues' = 0
    /\ lwritten' = {}
    /\ llive' = {}
    /\ ltried' = [u \in URLSet |-> 0]
    /\ UNCHANGED <<ltodo, conns, dialers, hpc, lastWrite>>
    /\ UNCHANGED <<envVars, initVars>>

\* The network: the peer of an established connection to a flaky collector goes away.
Break(c) ==
    /\ c \in open \ broken
    /\ breaks < MaxBreaks
    /\ \E u \in DOMAIN conns : conns[u] = c /\ kind[u] = "flaky"
    /\ broken' = broken \cup {c}
    /\ breaks' = breaks + 1
    /\ UNCHANGED <<urls, kind, open, conns, dialers, hpc, lastWrite>>
    /\ UNCHANGED <<initVars, loopVars>>

DialerIds == 1..Len(URLs)
ConnIds == 1..(2 * Len(URLs))

CarbonNext ==
    \/ \E h \in Callers : HandleMeters(h)
    \/ \E h \in Callers : InitCall(h)
    \/ \E h \in Callers : InitMake(h)
    \/ \E h \in Callers : InitConnect(h)
    \/ \E h \in Callers : InitChans(h)
    \/ \E h \in Callers : InitGo(h)
    \/ \E h \in Callers : OnceReturn(h)
    \/ \E d \in DialerIds : DialOK(d)
    \/ \E d \in DialerIds : DialFail(d)
    \/ \E h \in Callers : RunValues(h)
    \/ \E d \in DialerIds : RunConn(d)
    \/ \E u \in URLSet : SendOne(u)
    \/ SendDone
    \/ \E c \in ConnIds : Break(c)

Init == DistInit /\ PctIdle /\ CarbonIdle /\ SleepIdle

Next == DistNext /\ UNCHANGED <<pctVars, carbonVars, sleepVars>>

Spec == Init /\ [][Next]_vars

InitPct == DistInit /\ PctInit /\ CarbonIdle /\ SleepIdle

NextPct == PctRead /\ UNCHANGED <<distVars, carbonVars, sleepVars>>

SpecPct == InitPct /\ [][NextPct]_vars

InitCarbon == DistInit /\ PctIdle /\ CarbonInit /\ SleepIdle

NextCarbon == CarbonNext /\ UNCHANGED <<distVars, pctVars, sleepVars>>

SpecCarbon == InitCarbon /\ [][NextCarbon]_vars

InitCarbonDup == DistInit /\ PctIdle /\ CarbonInitDup /\ SleepIdle

SpecCarbonDup == InitCarbonDup /\ [][NextCarbon]_vars

InitSleep == DistInit /\ PctIdle /\ CarbonIdle /\ SleepInit

NextSleep == DialRound /\ UNCHANGED <<distVars, pctVars, carbonVars>>

SpecSleep == InitSleep /\ [][NextSleep]_vars

\* A step of the reporter.
Step(A) == A /\ UNCHANGED <<distVars, pctVars, sleepVars>>

\* Scheduling: every task that can run does run; snapshots keep arriving; the select of
\* run picks each ready case again and again; a dial to a collector that is not
\* unreachable succeeds in the end.
CarbonFairness ==
    /\ \A h \in Callers :
          /\ WF_vars(Step(HandleMeters(h)))
          /\ WF_vars(Step(InitMake(h) \/ InitConnect(h) \/ InitChans(h)
                        \/ InitGo(h) \/ OnceReturn(h)))
          /\ SF_vars(Step(RunValues(h)))
    /\ \A d \in DialerIds :
          /\ SF_vars(Step(DialOK(d)))
          /\ SF_vars(Step(RunConn(d)))
    /\ WF_vars(Step(SendDone \/ \E u \in URLSet : SendOne(u)))

SpecCarbonFair == SpecCarbon /\ CarbonFairness

(***************************************************************************)
(* Claims about Distribution, checked under Spec.                          *)
(***************************************************************************)
\* The Record calls of the window now closing all ran between the previous
\* ReadMeter call and this one, overlapping neither.
clean == prevQuiet /\ quiet

NonEmpty(m) == DOMAIN m = {"count", "p00", "p50", "p90", "p99", "pmx"}

\* ReadMeter is about to return `result`, computed from a reservoir no Record raced.
QuietRead == rpc = "done" /\ ~raced /\ rold # Nil

\* C1: when every Record call of the window between two ReadMeter calls has
\* returned before the ReadMeter starts (and none overlaps it), ReadMeter reports
\* count = the number of those calls, also when the callers raced the creation
\* of the first reservoir.
C1_NoLostCount ==
    (rpc = "done" /\ clean /\ calls >= 1) => (NonEmpty(result) /\ result.count = calls)

\* Two callers each built a reservoir for the first Record; all three calls are counted.
C1_Witness ==
    /\ rpc = "done" /\ clean /\ calls = 3 /\ reads = 1 /\ SamplingSeed = 3
    /\ NonEmpty(result) /\ result.count = 3

\* C2: after any non-empty sequence of values recorded into one generation,
\* ReadMeter reports p00 = the least and pmx = the greatest of all values offered.
C2_MinMax ==
    (QuietRead /\ offered[rold] # <<>>) =>
        /\ NonEmpty(result)
        /\ result.p00 = SeqMin(offered[rold])
        /\ result.pmx = SeqMax(offered[rold])

\* The reservoir after the values of `pre` were recorded, when they all fit.
After(pre) ==
    [items |-> [i \in 1..getSize |-> IF i <= Len(pre) THEN pre[i] ELSE 0],
     count |-> Len(pre),
     min   |-> IF SeqMin(pre) < MaxFloat64 THEN SeqMin(pre) ELSE MaxFloat64,
     max   |-> IF SeqMax(pre) > 0 THEN SeqMax(pre) ELSE 0]

\* The mapping m describes the reservoir as it was right after the Records of `pre`.
DescribesPrefix(m, pre) ==
    IF pre = <<>> THEN m = EmptyMap
    ELSE /\ NonEmpty(m)
         /\ m.count = Len(pre)
         /\ m.p00 = After(pre).min
         /\ m.pmx = After(pre).max
         /\ Len(pre) <= getSize => m = Read(After(pre))

\* C3: what ReadMeter returns describes the detached reservoir as it was at one
\* instant between whole Record operations: after some prefix of the Records
\* applied to it.
C3_Snapshot ==
    (rpc = "done" /\ rold # Nil) =>
        \E k \in 0..Len(offered[rold]) : DescribesPrefix(result, SubSeq(offered[rold], 1, k))

\* C4: a generation offered N <= capacity values holds exactly those values, in
\* arrival order, in its first N slots with count = N, and the following
\* ReadMeter reports count = N and the percentiles of exactly those N values.
C4_ExactRetention ==
    /\ \A a \in DOMAIN heap :
          (mutex[a] = 0 /\ Len(offered[a]) <= getSize) =>
              /\ heap[a].count = Len(offered[a])
              /\ SubSeq(heap[a].items, 1, heap[a].count) = offered[a]
    /\ (QuietRead /\ Len(offered[rold]) \in 1..getSize) =>
          LET N      == Len(offered[rold])
              sorted == SortAsc(offered[rold])
          IN  /\ NonEmpty(result)
              /\ result.count = N
              /\ result.p50 = sorted[((N * 50) \div 100) + 1]
              /\ result.p90 = sorted[((N * 90) \div 100) + 1]
              /\ result.p99 = sorted[((N * 99) \div 100) + 1]

\* A full reservoir is read whose two values arrived in descending order.
C4_Witness ==
    /\ QuietRead /\ offered[rold] = <<2, -1>>
    /\ result.count = 2 /\ result.p50 = 2 /\ result.p00 = -1

\* C5: after N >= capacity Records into one generation, whatever the sampling
\* draws, the buffer still has capacity slots, the retained sample has exactly
\* capacity values, and it is a sub-multiset of the values offered.
C5_BoundedSample ==
    /\ \A a \in DOMAIN heap :
          /\ Len(heap[a].items) = getSize
          /\ (mutex[a] = 0 /\ Len(offered[a]) >= getSize) =>
                /\ heap[a].count = Len(offered[a])
                /\ SeqBag(heap[a].items) \sqsubseteq SeqBag(offered[a])
    /\ rpc \in {"count", "min", "max"} => (rn <= getSize /\ Len(ritems) = getSize)
    /\ (QuietRead /\ Len(offered[rold]) >= getSize) =>
          /\ NonEmpty(result)
          /\ \A k \in {"p50", "p90", "p99"} :
                \E j \in 1..Len(offered[rold]) : result[k] = offered[rold][j]

\* More values than slots were offered, and a later one replaced an earlier one.
C5_Witness ==
    \E a \in DOMAIN heap :
        /\ mutex[a] = 0
        /\ Len(offered[a]) = getSize + 1
        /\ heap[a].items # SubSeq(offered[a], 1, getSize)

\* C6: ReadMeter returns the empty mapping when no Record landed in the
\* generation it detaches: before any Record (no reservoir yet), and on the
\* second of two ReadMeter calls with no Record in between.
C6_EmptyRead ==
    /\ (rpc = "done" /\ clean /\ calls = 0) => result = EmptyMap
    /\ (rpc = "done" /\ rold = Nil) => result = EmptyMap
    /\ (rpc = "done" /\ rold # Nil /\ offered[rold] = <<>>) => result = EmptyMap

\* The second of two reads in a row, after values were recorded and read.
C6_Witness ==
    /\ rpc = "done" /\ clean /\ calls = 0 /\ reads = 2 /\ started = MaxRecords
    /\ rold # Nil /\ result = EmptyMap

(***************************************************************************)
(* Claims about the percentiles of Read, checked under SpecPct.            *)
(***************************************************************************)
PctKey(p) == CASE p = 50 -> "p50" [] p = 90 -> "p90" [] p = 99 -> "p99"

\* The 0-based index into the sorted sample 1 .. n of the value reported for p.
ReportedIndex(p) == pmap[PctKey(p)] - 1

Processed == lpc = "send" /\ ltodo = {}

\* C8: one destination healthy, the other unreachable: every snapshot passed to
\* HandleMeters is written in full to the healthy destination.  Read in the
\* weakest way the words allow - from some snapshot on, every snapshot the
\* loop has processed was written to the healthy destination - under fair
\* scheduling.
C8_HealthyDelivery ==
    \A u \in URLSet :
        <>[]((kind[u] = "healthy" /\ \E v \in URLSet : kind[v] = "unreachable" /\ Processed)
                => u \in lwritten)

\* C9: after a write to a destination fails, a new connection for it is
\* eventually installed in the registry and a later snapshot is written to
\* it, under fair scheduling, dials that succeed in the end and snapshots
\* that keep arriving.
C9_Reconnect ==
    \A u \in URLSet :
        /\ (lastWrite[u] = "fail") ~> (Lookup(conns, u) \in open)
        /\ (lastWrite[u] = "fail") ~> (lastWrite[u] = "ok")

\* C9: the only flaky destination had its connection broken and, the write to it
\* having failed, torn down; a snapshot has been written to its new connection.
C9_Witness ==
    \E u \in URLSet :
        /\ kind[u] = "flaky" /\ \A v \in URLSet \ {u} : kind[v] # "flaky"
        /\ breaks > 0 /\ broken = {}
        /\ lastWrite[u] = "ok" /\ Lookup(conns, u) \in open

\* C10: every HandleMeters call eventually returns, and the control loop
\* always comes back to its select, under fair scheduling.
C10_Returns ==
    /\ \A h \in Callers : (hpc[h] # "idle") ~> (hpc[h] = "idle")
    /\ (lpc = "send") ~> (lpc = "select")

\* C10: a call has returned, its snapshot in the hands of send, while no
\* destination is connected, one dial task sleeps in its backoff and another
\* waits to hand its connection over.
C10_Witness ==
    /\ \E h \in Callers : hpc[h] = "idle" /\ lvalues = h /\ lpc = "send"
    /\ \A u \in URLSet : Lookup(conns, u) = Nil
    /\ \E d \in DOMAIN dialers : dialers[d].pc = "dial" /\ dialers[d].attempts > 0
    /\ \E d \in DOMAIN dialers : dialers[d].pc = "handoff"
    /\ \E h \in Callers : hpc[h] = "send"

\* C11: under concurrent first calls of HandleMeters and Init the body of init
\* runs exactly once: one run task is started, init starts one dial task per
\* destination, and no caller is at its send on the snapshot channel before
\* the channel exists and init is done.
C11_InitOnce ==
    /\ inits <= 1 /\ loops <= 1
    /\ \A u \in URLSet : initDials[u] <= 1
    /\ once = "done" => /\ inits = 1 /\ loops = 1
                        /\ \A u \in URLSet : initDials[u] = 1
    /\ once = "new" => inits = 0 /\ loops = 0
    /\ \A h \in Callers : hpc[h] = "send" => once = "done" /\ valuesC # Nil /\ lpc # "off"

\* C11: init is done and has run once, while a caller that called during init
\* still waits in Do and another is at its send.
C11_Witness ==
    /\ once = "done" /\ inits = 1 /\ loops = 1
    /\ \E h \in Callers : hpc[h] \in {"once", "onceOnly"}
    /\ \E h \in Callers : hpc[h] = "send"

\* The number of the latest dial attempt of the failing dial task (0-based).
LastAttempt == sattempts - 1

\* C12: the delay before dial attempt number attempts is min(attempts * 2s,
\* ceiling): nothing before the first attempt, never less than before the
\* attempt before, never above the ceiling; with a ceiling of 10s the
\* attempts 0, 1, 2, 3 wait 0s, 2s, 4s, 6s and attempt 10 waits 10s.
C12_Backoff ==
    sattempts > 0 =>
        /\ sdelay = MinInt(LastAttempt * 2, scap)
        /\ LastAttempt = 0 => sdelay = 0
        /\ sdelay >= sprev
        /\ sdelay <= scap
        /\ scap = 10 /\ LastAttempt \in 0..3 => sdelay = 2 * LastAttempt
        /\ scap = 10 /\ LastAttempt = 10 => sdelay = 10

\* C12: with a ceiling of 10s, attempt 10 has waited the ceiling, after
\* attempt 9 had.
C12_Witness == scap = 10 /\ LastAttempt = 10 /\ sdelay = 10 /\ sprev = 10

\* The positions of distribution.Record: the caller has chosen its reservoir.
AtReservoir == {"lock", "store", "min", "max"}

C14_NoDoubleCount ==
    reported + (IF rpc = "done" THEN countOf(result) ELSE 0) <= started

\* C14: every Record call has returned, two ReadMeter calls have reported
\* counts, and one value, recorded into a reservoir that was already
\* displaced, is in no report and in no reservoir.
C14_Witness ==
    /\ rpc = "idle" /\ reads = MaxReads
    /\ \A w \in Writers : wpc[w] = "idle"
    /\ started = MaxRecords
    /\ reported = MaxRecords - 1
    /\ heap[state].count = 0

\* C15, as stated: among the callers racing the first Record, and any
\* concurrent ReadMeter, exactly one compare-and-swap from nil succeeds:
\* whoever lost its compare-and-swap lost it to one that succeeded.
C15_ExactlyOneCAS ==
    \A w \in Writers : wpc[w] = "reload" => casWins = 1

\* C15, as the code has it: at most one compare-and-swap from nil succeeds,
\* and exactly one when no ReadMeter has been called, for a ReadMeter that
\* finds no reservoir installs one with its swap, and then every racing
\* Record loses; a loser records into the reservoir that is installed, not
\* into the one it built; Record never uses a nil reservoir; the pointer
\* never returns to nil.
C15_InstallOnce ==
    /\ [](/\ casWins <= 1
          /\ casWins = 1 => state # Nil
          /\ (state # Nil /\ reads = 0) => casWins = 1
          /\ \A w \in Writers :
                /\ wpc[w] \in AtReservoir => wst[w] # Nil /\ wst[w] \in DOMAIN heap
                /\ (wpc[w] \in AtReservoir /\ reads = 0) => wst[w] = state
                /\ wpc[w] = "reload" => state # Nil /\ wst[w] # state)
    /\ [][/\ state # Nil => state' # Nil
          /\ casWins' # casWins =>
                state = Nil /\ \E w \in Writers : wpc[w] = "cas" /\ state' = wst[w]
          /\ \A w \in Writers :
                (wpc[w] = "reload" /\ wpc'[w] # "reload")
                    => wst'[w] = state /\ wst'[w] # wst[w] /\ wst[w] \notin DOMAIN heap'
         ]_vars

\* C15: two Record calls found no reservoir and each built one; one
\* compare-and-swap succeeded and both values are in the reservoir it
\* installed.
C15_Witness ==
    /\ reads = 0 /\ SamplingSeed = 2 /\ casWins = 1
    /\ state # Nil /\ heap[state].count = 2
    /\ \A w \in Writers : wpc[w] = "idle"

\* C16: every dial task whose dial succeeds, those init starts included,
\* hands its connection to the run task, which installs it under its URL:
\* under fair scheduling a successful dial is eventually followed by a
\* connection in the registry for that destination, and no dial task stays
\* blocked on the hand-off for ever.
C16_HandOff ==
    \A u \in URLSet :
        (\E d \in DOMAIN dialers : dialers[d].url = u /\ dialers[d].conn # Nil)
            ~> (/\ Lookup(conns, u) # Nil
                /\ \A d \in DOMAIN dialers : dialers[d].url = u => dialers[d].conn = Nil)

\* C17: send attempts one write of the snapshot on each destination that had
\* a connection in the registry when the snapshot arrived, and on no other:
\* a write error on one does not stop the round, a destination without
\* connection is skipped, nothing is written twice, and the snapshot is kept
\* nowhere once send has returned.
C17_SendRound ==
    /\ lpc = "send" =>
          \A u \in URLSet :
              /\ ltried[u] <= 1
              /\ u \in ltodo => ltried[u] = 0
              /\ u \notin ltodo => (ltried[u] = 1 <=> u \in llive)
              /\ u \in lwritten => ltried[u] = 1
    /\ lpc # "send" => lvalues = 0 /\ ltodo = {}

\* C17: send has gone through a round in which the write to one destination
\* failed and the write to another succeeded.
C17_Witness ==
    /\ Processed
    /\ \E u \in llive : u \notin lwritten /\ ltried[u] = 1 /\ conns[u] = Nil
    /\ \E v \in llive : v \in lwritten

\* The dial tasks running for a destination.
DialersOf(u) == {d \in DOMAIN dialers : dialers[d].url = u}

\* C18: when a write to a destination fails, the run task, in that very
\* step of send, closes the connection, sets the registry entry to nil and
\* starts exactly one dial task for the URL; it leaves the other entries of
\* the registry and the other dial tasks as they are and goes on with send.
C18_Retire ==
    [][\A u \in URLSet :
          (ltried'[u] = ltried[u] + 1 /\ u \notin lwritten')
              => /\ conns[u] # Nil /\ conns[u] \in open
                 /\ conns[u] \notin open'
                 /\ conns'[u] = Nil
                 /\ \A v \in DOMAIN conns \ {u} : conns'[v] = conns[v]
                 /\ DOMAIN conns' = DOMAIN conns
                 /\ Cardinality(DOMAIN dialers' \ DOMAIN dialers) = 1
                 /\ \A d \in DOMAIN dialers : d \in DOMAIN dialers' /\ dialers'[d] = dialers[d]
                 /\ \A d \in DOMAIN dialers' \ DOMAIN dialers :
                       dialers'[d] = [url |-> u, pc |-> "dial", attempts |-> 0,
                                      delay |-> 0, conn |-> Nil]
                 /\ lpc' = "send" /\ lvalues' = lvalues
      ]_vars

\* C18: a write has just failed: the destination has no connection, one dial
\* task at its first attempt, and send still has a destination to visit.
C18_Witness ==
    /\ lpc = "send" /\ ltodo # {}
    /\ \E u \in llive :
          /\ ltried[u] = 1 /\ u \notin lwritten
          /\ conns[u] = Nil
          /\ \E d \in DialersOf(u) : dialers[d].attempts = 0 /\ dialers[d].pc = "dial"
          /\ Cardinality(DialersOf(u)) = 1

\* C19: the run task closes the connection a new one replaces in the
\* registry: every connection that is open is in the registry or in the
\* hands of the dial task that established it.
C19_NoLeak ==
    open \subseteq ({conns[u] : u \in DOMAIN conns}
                        \cup {dialers[d].conn : d \in DOMAIN dialers})

\* C20: once init is done, every configured destination has either a
\* connection in the registry and no dial task, or no connection and exactly
\* one dial task that is dialing, sleeping or waiting for the run task to
\* take its connection: no destination is abandoned or has two dial tasks.
C20_OneDialerOrConnection ==
    once = "done" =>
        \A u \in URLSet :
            \/ conns[u] # Nil /\ DialersOf(u) = {}
            \/ /\ conns[u] = Nil
               /\ Cardinality(DialersOf(u)) = 1
               /\ \A d \in DialersOf(u) : dialers[d].pc \in {"dial", "handoff"}
====
